---- MODULE Spec2Model ----
(***************************************************************************)
(* Model of package callcache (src/callcache.go): a Dispatcher that keeps  *)
(* one call per key, a singleflight group per call, a read/write lock on   *)
(* the cached result, and detached background updates.                     *)
(*                                                                         *)
(* Goroutine p in 1..NumCalls makes the p-th call of the run, a Do or a    *)
(* Remove; goroutine NumCalls+p is the one `go c.update(fn)` starts for    *)
(* call p. The fn of call p on key k returns the pair <<k, p>>, so that    *)
(* the origin of every value is visible.                                   *)
(***************************************************************************)
EXTENDS Integers, Sequences, FiniteSets, TLC

\* ---------------------------------------------------------------- bounds
NumCalls == 3
MaxActive == 2
MaxTicks == 3

\* The reading of time.Now().UnixNano() when the program starts (> 0).
Epoch == 3

Keys == {"k1", "k2"}
\* An expiration no clock reading of the run exceeds (a Duration such as
\* math.MaxInt64 nanoseconds, about 292 years, against a clock of 56 years).
BigExpiration == Epoch + MaxTicks
Expirations == {2, BigExpiration}
UpdateIntervals == {0, 1}

Callers == 1..NumCalls
Threads == 1..(2 * NumCalls)
BgThread(p) == NumCalls + p
IsBg(x) == x > NumCalls

Nil == <<>>
NoKey == "-"

VARIABLES
    clock,          \* the latest reading of time.Now().UnixNano()
    expiration,     \* Dispatcher.expiration, copied into every call
    updateInterval, \* Dispatcher.updateInterval, copied into every call
    calls,          \* Dispatcher.calls: key -> index into entries, 0 = nil
    dmu,            \* Dispatcher.mu: the goroutine holding it, 0 = unlocked
    entries,        \* every call struct allocated, reachable from calls or not
    th,             \* each goroutine's position and locals
    crash,          \* "none", or how the process died
    lastRet         \* per key, the call that returned last, 0 = none

vars == <<clock, expiration, updateInterval, calls, dmu, entries, th, crash, lastRet>>

\* ------------------------------------------------------------ data model
\* type call struct: result, lastUpdate and group (flight: the goroutine
\* executing the "update" call, 0 = none). Its mu guards two sections that
\* hold nothing else and never block inside, Read (RLock) and Store (Lock):
\* each is one step.
NewCall(k) ==
    [key |-> k, result |-> Nil, lastUpdate |-> 0, flight |-> 0]

\* A goroutine: pc and the locals of Do, do and update (key; e: the *call;
\* for a Remove the call struct it deleted, 0 = none; now, v, t of do;
\* unow, ut: now and t of update, once returned the clock reading of the execution that produced the pair its update or its
\* background update got, uv: c.result as update found it; fnerr: fn
\* failed; rv, rerr: the pair returned), and a record of
\* what the call did (path; ran: fn was called; src: the goroutine whose
\* flight it waited for; spawned; bg: how its background update ended;
\* created: Do allocated the call struct; overlap: another operation on the
\* key ran during it; prev: the call that had returned last on the key).
IdleRec ==
    [pc |-> "idle", kind |-> "none", key |-> NoKey, fnerr |-> FALSE,
     e |-> 0, now |-> 0, v |-> Nil, t |-> 0, unow |-> 0, ut |-> 0, uv |-> Nil,
     rv |-> Nil, rerr |-> FALSE,
     path |-> "none", ran |-> FALSE, src |-> 0, spawned |-> FALSE, bg |-> "none",
     created |-> FALSE, overlap |-> FALSE, prev |-> 0]

\* The call a goroutine works for.
CallOf(x) == IF x > NumCalls THEN x - NumCalls ELSE x

\* What fn returns besides its error.
FnValue(x) == <<th[x].key, CallOf(x)>>

\* ------------------------------------------------------ staleness policy
\* Mutant: a stale value is recomputed synchronously, as an expired one is.
ExpiredOrStale(t) == t > expiration \/ (updateInterval > 0 /\ t > updateInterval)

\* Mutant: a value is served for one clock unit beyond the expiration.
ExpiredLate(t) == t > expiration + 1

\* call.do, line 67
Expired(t) == t > expiration

\* Mutant: the background update starts at the update interval, not after.
NeedsRefreshEager(t) == updateInterval > 0 /\ t >= updateInterval

\* Mutant: no background update is ever started.
NeedsRefreshNever(t) == FALSE

\* call.do, line 70
NeedsRefresh(t) == updateInterval > 0 /\ t > updateInterval

\* Mutant: update re-checks against the expiration alone.
StillFreshUntilExpired(t) == t <= expiration

\* Mutant: update does not re-check freshness.
StillFreshNever(t) == FALSE

\* call.update, line 79
StillFresh(t) == t < expiration /\ (updateInterval = 0 \/ t < updateInterval)

\* Mutant: the group never finds a call in flight.
InFlightNever(e) == FALSE

\* singleflight.Group.Do: a call for "update" is registered
InFlight(e) == entries[e].flight # 0

\* ---------------------------------------------------------------- init
Init ==
    /\ clock = Epoch
    /\ expiration \in Expirations
    /\ updateInterval \in UpdateIntervals
    /\ calls = [k \in Keys |-> 0]
    /\ dmu = 0
    /\ entries = <<>>
    /\ th = [x \in Threads |-> IdleRec]
    /\ crash = "none"
    /\ lastRet = [k \in Keys |-> 0]

Running == crash = "none"

\* Goroutines at work on key k, other than p.
Busy(p, k) == {x \in Threads \ {p} : th[x].pc \notin {"idle", "ret"} /\ th[x].key = k}

\* th with p's record replaced and every goroutine at work on k marked as
\* overlapping another operation on k.
Begin(p, k, rec) ==
    [x \in Threads |->
        IF x = p THEN [rec EXCEPT !.overlap = (Busy(p, k) # {})]
        ELSE IF x \in Busy(p, k) THEN [th[x] EXCEPT !.overlap = TRUE]
        ELSE th[x]]

\* Callers inside Do or Remove.
Active == {q \in Callers : th[q].pc \notin {"idle", "ret"}}

\* Calls are numbered in the order they start, and the keys in the order
\* they are first used; at most MaxActive callers are inside a call.
MayStart(p, k) ==
    /\ p \in Callers
    /\ th[p].pc = "idle"
    /\ Cardinality(Active) < MaxActive
    /\ IF p = 1 THEN k = "k1" ELSE th[p - 1].pc # "idle"

\* Clock readings time.Now() can return next: time does not run backwards.
Readings == clock..(Epoch + MaxTicks)

\* ------------------------------------------------------- Dispatcher.Do
\* Call p is d.Do(k, fn); it gets past line 34: d.mu.Lock()
StartDo(p, k) ==
    /\ Running
    /\ MayStart(p, k)
    /\ dmu = 0
    /\ dmu' = p
    /\ th' = Begin(p, k, [IdleRec EXCEPT !.pc = "locked", !.kind = "do", !.key = k,
                           !.prev = lastRet[k]])
    /\ UNCHANGED <<clock, expiration, updateInterval, calls, entries, crash, lastRet>>

\* Mutant: the call struct is allocated whether the key is present or not.
DoCreateAlways(p) ==
    /\ Running
    /\ th[p].pc = "locked"
    /\ dmu' = 0
    /\ entries' = Append(entries, NewCall(th[p].key))
    /\ calls' = [calls EXCEPT ![th[p].key] = Len(entries) + 1]
    /\ th' = [th EXCEPT ![p].pc = "lookup", ![p].created = TRUE]
    /\ UNCHANGED <<clock, expiration, updateInterval, crash, lastRet>>

\* lines 35-38: create the call struct if absent; d.mu.Unlock()
DoCreate(p) ==
    /\ Running
    /\ th[p].pc = "locked"
    /\ dmu' = 0
    /\ IF calls[th[p].key] = 0
          THEN /\ entries' = Append(entries, NewCall(th[p].key))
               /\ calls' = [calls EXCEPT ![th[p].key] = Len(entries) + 1]
               /\ th' = [th EXCEPT ![p].pc = "lookup", ![p].created = TRUE]
          ELSE /\ th' = [th EXCEPT ![p].pc = "lookup"]
               /\ UNCHANGED <<entries, calls>>
    /\ UNCHANGED <<clock, expiration, updateInterval, crash, lastRet>>

\* Another goroutine is inside a d.mu critical section that writes d.calls.
MapWriter(p) ==
    /\ dmu # 0
    /\ dmu # p
    /\ \/ th[dmu].pc = "locked" /\ calls[th[dmu].key] = 0
       \/ th[dmu].pc = "rmlocked"

\* line 40: d.calls[key], read after d.mu was released, then call.do line 60
DoLookup(p) ==
    /\ Running
    /\ th[p].pc = "lookup"
    /\ \/ /\ calls[th[p].key] # 0
          /\ \E n \in Readings :
                /\ clock' = n
                /\ th' = [th EXCEPT ![p].e = calls[th[p].key], ![p].now = n, ![p].pc = "read"]
          /\ UNCHANGED crash
       \/ /\ calls[th[p].key] = 0
          \* (*call)(nil).do: nil pointer dereference at c.mu.RLock()
          /\ crash' = "nilderef"
          /\ UNCHANGED <<th, clock>>
       \/ /\ MapWriter(p)
          \* unsynchronized map read during a map write: the runtime aborts
          /\ crash' = "maprace"
          /\ UNCHANGED <<th, clock>>
    /\ UNCHANGED <<expiration, updateInterval, calls, dmu, entries, lastRet>>

\* ------------------------------------------------------------- call.do
\* The goroutine started by `go c.update(fn)` (line 71).
Spawned(p) ==
    [IdleRec EXCEPT !.pc = "update", !.kind = "bg", !.key = th[p].key,
                    !.e = th[p].e, !.path = "bg"]

\* lines 62-73: c.mu.RLock(), snapshot, c.mu.RUnlock(), and the decision
Read(p) ==
    /\ Running
    /\ th[p].pc = "read"
    /\ LET c == entries[th[p].e]
           v == c.result
           t == th[p].now - c.lastUpdate
           snap == [th[p] EXCEPT !.v = v, !.t = t]
       IN  IF Expired(t)
             THEN /\ th' = [th EXCEPT ![p] = [snap EXCEPT !.pc = "update", !.path = "sync"]]
                  /\ UNCHANGED lastRet
             ELSE IF NeedsRefresh(t)
               THEN /\ th' = [th EXCEPT
                               ![p] = [snap EXCEPT !.pc = "ret", !.path = "stale",
                                                   !.rv = v, !.rerr = FALSE, !.spawned = TRUE],
                               ![BgThread(p)] = Spawned(p)]
                    /\ lastRet' = [lastRet EXCEPT ![th[p].key] = p]
               ELSE /\ th' = [th EXCEPT
                               ![p] = [snap EXCEPT !.pc = "ret", !.path = "hit",
                                                   !.rv = v, !.rerr = FALSE]]
                    /\ lastRet' = [lastRet EXCEPT ![th[p].key] = p]
    /\ UNCHANGED <<clock, expiration, updateInterval, calls, dmu, entries, crash>>

\* --------------------------------------------------------- call.update
\* line 77, singleflight: a call is in flight; wait for it
Join(x) ==
    /\ Running
    /\ th[x].pc = "update"
    /\ InFlight(th[x].e)
    /\ th' = [th EXCEPT ![x].pc = "wait", ![x].src = entries[th[x].e].flight]
    /\ UNCHANGED <<clock, expiration, updateInterval, calls, dmu, entries, crash, lastRet>>

\* lines 77-83, singleflight: no call in flight; register one and run the
\* function: read the clock, re-check freshness, call fn or use c.result
Lead(x) ==
    /\ Running
    /\ th[x].pc = "update"
    /\ ~InFlight(th[x].e)
    /\ entries' = [entries EXCEPT ![th[x].e].flight = x]
    /\ \E n \in Readings :
          /\ clock' = n
          /\ LET c == entries[th[x].e]
                 t == n - c.lastUpdate
                 me == [th[x] EXCEPT !.unow = n, !.ut = t, !.uv = c.result]
             IN  IF StillFresh(t)
                   THEN th' = [th EXCEPT ![x] = [me EXCEPT !.pc = "finish", !.rv = c.result,
                                                           !.rerr = FALSE]]
                   ELSE th' = [th EXCEPT ![x] = [me EXCEPT !.pc = "fn", !.ran = TRUE]]
    /\ UNCHANGED <<expiration, updateInterval, calls, dmu, crash, lastRet>>

\* Mutant: the result is stored whether fn failed or not.
FnReturnStoresFailure(x, err) ==
    /\ Running
    /\ th[x].pc = "fn"
    /\ th' = [th EXCEPT ![x].pc = "write", ![x].fnerr = err]
    /\ UNCHANGED <<clock, expiration, updateInterval, calls, dmu, entries, crash, lastRet>>

\* line 83: fn returns its value and, as err says, an error; with an error
\* nothing is stored (line 84)
FnReturn(x, err) ==
    /\ Running
    /\ th[x].pc = "fn"
    /\ IF err
          THEN th' = [th EXCEPT ![x].pc = "finish", ![x].fnerr = TRUE,
                                ![x].rv = FnValue(x), ![x].rerr = TRUE]
          ELSE th' = [th EXCEPT ![x].pc = "write"]
    /\ UNCHANGED <<clock, expiration, updateInterval, calls, dmu, entries, crash, lastRet>>

\* Mutant: the result is stored in the call struct registered for the key
\* at that moment, if there is one.
StoreToRegistered(x) ==
    /\ Running
    /\ th[x].pc = "write"
    /\ LET e == IF calls[th[x].key] = 0 THEN th[x].e ELSE calls[th[x].key]
       IN  entries' = [entries EXCEPT ![e].result = FnValue(x),
                                      ![e].lastUpdate = th[x].unow]
    /\ th' = [th EXCEPT ![x].pc = "finish", ![x].rv = FnValue(x), ![x].rerr = FALSE]
    /\ UNCHANGED <<clock, expiration, updateInterval, calls, dmu, crash, lastRet>>

\* Mutant: the time stored is the latest clock reading, as if read after fn
\* returned.
StoreReturnTime(x) ==
    /\ Running
    /\ th[x].pc = "write"
    /\ entries' = [entries EXCEPT ![th[x].e].result = FnValue(x),
                                  ![th[x].e].lastUpdate = clock]
    /\ th' = [th EXCEPT ![x].pc = "finish", ![x].rv = FnValue(x), ![x].rerr = FALSE]
    /\ UNCHANGED <<clock, expiration, updateInterval, calls, dmu, crash, lastRet>>

\* Mutant: the time stored is the one do read (line 60), not update's.
StoreDoTime(x) ==
    /\ Running
    /\ th[x].pc = "write"
    /\ entries' = [entries EXCEPT ![th[x].e].result = FnValue(x),
                                  ![th[x].e].lastUpdate = th[x].now]
    /\ th' = [th EXCEPT ![x].pc = "finish", ![x].rv = FnValue(x), ![x].rerr = FALSE]
    /\ UNCHANGED <<clock, expiration, updateInterval, calls, dmu, crash, lastRet>>

\* Mutant: the result is stored and lastUpdate is left as it was.
StoreForgetsTime(x) ==
    /\ Running
    /\ th[x].pc = "write"
    /\ entries' = [entries EXCEPT ![th[x].e].result = FnValue(x)]
    /\ th' = [th EXCEPT ![x].pc = "finish", ![x].rv = FnValue(x), ![x].rerr = FALSE]
    /\ UNCHANGED <<clock, expiration, updateInterval, calls, dmu, crash, lastRet>>

\* lines 85-88: c.mu.Lock(); store the result and the time; c.mu.Unlock()
Store(x) ==
    /\ Running
    /\ th[x].pc = "write"
    /\ entries' = [entries EXCEPT ![th[x].e].result = FnValue(x),
                                  ![th[x].e].lastUpdate = th[x].unow]
    /\ th' = [th EXCEPT ![x].pc = "finish", ![x].rv = FnValue(x), ![x].rerr = FALSE]
    /\ UNCHANGED <<clock, expiration, updateInterval, calls, dmu, crash, lastRet>>

\* Goroutines waiting for the call in flight on e.
Waiters(e) == {w \in Threads : th[w].pc = "wait" /\ th[w].e = e}

\* The goroutines that x's flight releases when it is done.
Released(x) == {x} \cup Waiters(th[x].e)

\* How a background update ended: it stored fn's value, fn failed, or fn
\* was not called.
BgOutcome(x) ==
    IF ~th[x].ran THEN "skip" ELSE IF th[x].rerr THEN "fail" ELSE "ok"

\* The clock reading of the execution whose pair x's flight hands out: x's
\* own when it called fn, else the lastUpdate it found (line 79).
Served(x) == IF th[x].ran THEN th[x].unow ELSE th[x].unow - th[x].ut

\* lines 90-92, singleflight: the call is done; it is forgotten and every
\* waiter gets its value and error. Callers return; a background goroutine
\* ends, its result dropped.
Finish(x) ==
    /\ Running
    /\ th[x].pc = "finish"
    /\ entries' = [entries EXCEPT ![th[x].e].flight = 0]
    /\ th' = [w \in Threads |->
                IF w \in Released(x)
                  THEN IF IsBg(w) THEN IdleRec
                       ELSE [th[w] EXCEPT !.pc = "ret", !.unow = Served(x), !.ut = 0,
                                          !.uv = Nil, !.rv = th[x].rv, !.rerr = th[x].rerr]
                  ELSE IF BgThread(w) \in Released(x)
                    THEN [th[w] EXCEPT !.bg = BgOutcome(BgThread(w)), !.unow = Served(x)]
                    ELSE th[w]]
    /\ lastRet' = IF Released(x) \cap Callers = {} THEN lastRet
                  ELSE [lastRet EXCEPT ![th[x].key] = CHOOSE w \in Released(x) \cap Callers : TRUE]
    /\ UNCHANGED <<clock, expiration, updateInterval, calls, dmu, crash>>

\* --------------------------------------------------- Dispatcher.Remove
\* Call p is d.Remove(k); it gets past line 45: d.mu.Lock()
StartRemove(p, k) ==
    /\ Running
    /\ MayStart(p, k)
    /\ dmu = 0
    /\ dmu' = p
    /\ th' = Begin(p, k, [IdleRec EXCEPT !.pc = "rmlocked", !.kind = "remove", !.key = k,
                           !.prev = lastRet[k]])
    /\ UNCHANGED <<clock, expiration, updateInterval, calls, entries, crash, lastRet>>

\* lines 46-47: delete(d.calls, key); d.mu.Unlock(); return
RemoveDelete(p) ==
    /\ Running
    /\ th[p].pc = "rmlocked"
    /\ dmu' = 0
    /\ calls' = [calls EXCEPT ![th[p].key] = 0]
    /\ th' = [th EXCEPT ![p].pc = "ret", ![p].e = calls[th[p].key]]
    /\ lastRet' = [lastRet EXCEPT ![th[p].key] = p]
    /\ UNCHANGED <<clock, expiration, updateInterval, entries, crash>>

Next ==
    \/ \E p \in Callers, k \in Keys : StartDo(p, k)
    \/ \E p \in Callers, k \in Keys : StartRemove(p, k)
    \/ \E p \in Callers : DoCreate(p)
    \/ \E p \in Callers : DoLookup(p)
    \/ \E p \in Callers : Read(p)
    \/ \E x \in Threads : Join(x)
    \/ \E x \in Threads : Lead(x)
    \/ \E x \in Threads, err \in BOOLEAN : FnReturn(x, err)
    \/ \E x \in Threads : Store(x)
    \/ \E x \in Threads : Finish(x)
    \/ \E p \in Callers : RemoveDelete(p)

Spec == Init /\ [][Next]_vars

\* ======================================================================
\* Properties
\* ======================================================================
\* A Do that has returned.
DoAtRet(p) == th[p].kind = "do" /\ th[p].pc = "ret"

\* The goroutines between the call of fn and the end of the store, on e.
Executing(e) == {x \in Threads : th[x].e = e /\ th[x].pc \in {"fn", "write"}}

\* C1: on every call struct at most one goroutine is executing fn or
\* storing its result at any time, whether the goroutines came through the
\* synchronous path or the background path, and it is the one registered
\* with the singleflight group.
C1_OneExecutionPerEntry ==
    \A e \in 1..Len(entries) :
        /\ Cardinality(Executing(e)) <= 1
        /\ Executing(e) \subseteq {entries[e].flight}

\* fn is running for a background update while a synchronous caller waits
\* for it on the same call struct.
C1_Witness ==
    \E x, y \in Threads :
        /\ th[x].pc = "fn" /\ IsBg(x)
        /\ th[y].pc = "wait" /\ ~IsBg(y) /\ th[y].e = th[x].e

Least(S) == CHOOSE n \in S : \A m \in S : n <= m

\* Two Do calls on one call struct that both found it expired, with less
\* than the expiration (and the update interval) between the first clock
\* reading of either, or of the flight that served either, and the latest
\* clock reading.
SameWindow(p, q) ==
    /\ p # q /\ DoAtRet(p) /\ DoAtRet(q)
    /\ th[p].e = th[q].e
    /\ th[p].path = "sync" /\ th[q].path = "sync"
    /\ LET first == Least({th[p].now, th[q].now, th[p].unow, th[q].unow})
       IN  /\ clock - first < expiration
           /\ updateInterval > 0 => clock - first < updateInterval

\* C2 as claimed: such calls return the identical value/error pair from a
\* single execution of fn, whether it succeeded or failed.
C2_Original ==
    \A p, q \in Callers :
        SameWindow(p, q) =>
            /\ th[p].rv = th[q].rv /\ th[p].rerr = th[q].rerr
            /\ ~(th[p].ran /\ th[q].ran)

\* C2 as amended: the calls that return no error return the identical value
\* from a single execution of fn, and a call that waited for another's
\* flight returns that flight's pair; after a failed execution a later
\* caller executes its own fn.
C2_Amended ==
    \A p, q \in Callers :
        SameWindow(p, q) =>
            /\ (~th[p].rerr /\ ~th[q].rerr) =>
                   /\ th[p].rv = th[q].rv
                   /\ ~(th[p].ran /\ th[q].ran)
            /\ th[q].src = p =>
                   /\ th[p].rv = th[q].rv /\ th[p].rerr = th[q].rerr
                   /\ ~th[q].ran

\* One call executed fn with success and another, arriving in update after
\* that flight was over, returned the stored value without calling fn.
C2_Witness ==
    \E p, q \in Callers :
        /\ SameWindow(p, q)
        /\ th[p].ran /\ ~th[p].rerr
        /\ ~th[q].ran /\ th[q].src = 0 /\ th[q].rv = th[p].rv

\* C3 as claimed: a Do that found no call struct for its key, with no other
\* operation on the key during it, has called fn and returns fn's pair.
C3_FirstInvokeRuns ==
    \A p \in Callers :
        (DoAtRet(p) /\ th[p].created /\ ~th[p].overlap) =>
            /\ th[p].ran
            /\ th[p].rv = FnValue(p) /\ th[p].rerr = th[p].fnerr

\* The snapshot of Read(p) is a stored value within both thresholds.
FreshFor(p) ==
    LET c == entries[th[p].e]
        t == th[p].now - c.lastUpdate
    IN  /\ c.result # Nil
        /\ t <= expiration
        /\ updateInterval > 0 => t <= updateInterval

\* C4: a Do whose snapshot is a stored value of age at most expiration and,
\* with an update interval, at most the update interval, returns that value
\* and no error, has not called fn, starts no background goroutine and
\* changes no call struct.
C4_FreshHit ==
    [][\A p \in Callers :
          (th[p].pc = "read" /\ th'[p].pc # "read" /\ FreshFor(p)) =>
              /\ th'[p].pc = "ret"
              /\ th'[p].rv = entries[th[p].e].result /\ ~th'[p].rerr
              /\ ~th'[p].ran /\ ~th'[p].spawned
              /\ th'[BgThread(p)] = th[BgThread(p)]
              /\ entries' = entries]_vars

\* A second Do returned the value a first one stored, as a hit.
C4_Witness ==
    \E p \in Callers :
        /\ DoAtRet(p) /\ th[p].path = "hit"
        /\ th[p].rv # Nil /\ th[p].rv[2] # p

\* C5: without an update interval, a Do that finds a stored value older
\* than the expiration, with no other operation on the key during it, calls
\* its fn itself, returns fn's pair and, on success, has stored fn's value
\* and the time update read.
C5_ExpiredRecomputes ==
    \A p \in Callers :
        (/\ updateInterval = 0 /\ th[p].kind = "do" /\ ~th[p].overlap
         /\ th[p].v # Nil /\ th[p].t > expiration) =>
            /\ th[p].pc # "wait"
            /\ th[p].pc = "finish" =>
                   /\ th[p].ran /\ th[p].rv = FnValue(p) /\ th[p].rerr = th[p].fnerr
                   /\ ~th[p].rerr =>
                          /\ entries[th[p].e].result = FnValue(p)
                          /\ entries[th[p].e].lastUpdate = th[p].unow
            /\ th[p].pc = "ret" =>
                   /\ th[p].ran /\ th[p].src = 0
                   /\ th[p].rv = FnValue(p) /\ th[p].rerr = th[p].fnerr

\* A Do found the value of an earlier Do expired and replaced it.
C5_Witness ==
    \E p \in Callers :
        /\ updateInterval = 0 /\ DoAtRet(p) /\ ~th[p].overlap
        /\ th[p].v # Nil /\ th[p].t > expiration
        /\ th[p].ran /\ ~th[p].rerr
        /\ entries[th[p].e].result = FnValue(p)

\* C6: with 0 < updateInterval < expiration, a Do that finds a stored value
\* older than the update interval and not older than the expiration returns
\* it with no error without calling fn or waiting for a flight, and has
\* started a background update; a background update whose fn succeeded has
\* stored its value; and the next Do on the key, if it is a hit and no
\* other call on the key started a background update, returns that value.
C6_StaleServesAndRefreshes ==
    /\ \A p \in Callers :
          (/\ DoAtRet(p) /\ th[p].v # Nil
           /\ 0 < updateInterval /\ updateInterval < expiration
           /\ th[p].t > updateInterval /\ th[p].t <= expiration) =>
              /\ th[p].rv = th[p].v /\ ~th[p].rerr
              /\ ~th[p].ran /\ th[p].src = 0
              /\ th[p].spawned
    /\ \A x \in Threads :
          (IsBg(x) /\ th[x].pc = "finish" /\ th[x].ran /\ ~th[x].rerr) =>
              /\ entries[th[x].e].result = FnValue(x)
              /\ entries[th[x].e].lastUpdate = th[x].unow
    /\ \A p, q \in Callers :
          (/\ DoAtRet(q) /\ ~th[q].overlap /\ th[q].path = "hit" /\ th[q].prev = p
           /\ th[p].kind = "do" /\ th[p].path = "stale" /\ th[p].bg = "ok"
           /\ \A r \in Callers \ {p} : th[r].key = th[p].key => ~th[r].spawned) =>
              th[q].rv = <<th[q].key, p>>

\* A Do has returned the old value while the fn of its background update
\* is still running.
C6_WitnessInFlight ==
    \E p \in Callers :
        /\ DoAtRet(p) /\ th[p].path = "stale" /\ th[p].v # Nil /\ th[p].rv = th[p].v
        /\ th[BgThread(p)].pc = "fn"

\* C7 as claimed: a Do that follows a returned Remove of its key, with no
\* other operation on the key during it, has called fn and returns fn's
\* pair.
C7_AfterRemoveRuns ==
    \A p \in Callers :
        (/\ DoAtRet(p) /\ ~th[p].overlap
         /\ th[p].prev # 0 /\ th[th[p].prev].kind = "remove") =>
            /\ th[p].ran
            /\ th[p].rv = FnValue(p) /\ th[p].rerr = th[p].fnerr

\* C8: a goroutine whose fn failed returns fn's value and the error and has
\* left result and lastUpdate as update found them (and, with no other
\* operation on the key during the call, as do found them); a caller that
\* waited for a caller's flight returns the same pair; and the next Do on
\* the key after a failed synchronous update, neither overlapped, finds the
\* call struct expired and calls fn.
C8_FailureNotCached ==
    /\ \A x \in Threads :
          (th[x].pc = "finish" /\ th[x].ran /\ th[x].fnerr) =>
              /\ th[x].rerr /\ th[x].rv = FnValue(x)
              /\ entries[th[x].e].result = th[x].uv
              /\ entries[th[x].e].lastUpdate = th[x].unow - th[x].ut
              /\ (th[x].path = "sync" /\ ~th[x].overlap) =>
                     /\ entries[th[x].e].result = th[x].v
                     /\ entries[th[x].e].lastUpdate = th[x].now - th[x].t
    /\ \A p \in Callers :
          (DoAtRet(p) /\ th[p].ran /\ th[p].fnerr) =>
              th[p].rerr /\ th[p].rv = FnValue(p)
    /\ \A p, q \in Callers :
          (DoAtRet(q) /\ th[q].src = p) =>
              th[p].pc = "ret" /\ th[q].rv = th[p].rv /\ th[q].rerr = th[p].rerr
    /\ \A p, q \in Callers :
          (/\ DoAtRet(q) /\ ~th[q].overlap /\ th[q].prev = p
           /\ th[p].kind = "do" /\ th[p].path = "sync" /\ th[p].rerr /\ ~th[p].overlap) =>
              th[q].path = "sync" /\ th[q].ran

\* After a Do whose fn failed, the next Do on the key called fn again.
C8_Witness ==
    \E p, q \in Callers :
        /\ DoAtRet(q) /\ ~th[q].overlap /\ th[q].prev = p
        /\ th[p].kind = "do" /\ th[p].path = "sync" /\ th[p].ran /\ th[p].rerr
        /\ ~th[p].overlap /\ th[q].ran

\* C9: a Do whose snapshot is not older than the expiration returns no
\* error; a Do returns an error only on the synchronous path, and then the
\* error of the fn it called itself or of the flight it waited for; a
\* background update whose fn failed has left result and lastUpdate as it
\* found them.
C9_BackgroundFailureMasked ==
    /\ \A p \in Callers :
          DoAtRet(p) =>
              /\ th[p].t <= expiration => ~th[p].rerr
              /\ th[p].rerr =>
                     /\ th[p].path = "sync"
                     /\ \/ th[p].ran /\ th[p].fnerr /\ th[p].rv = FnValue(p)
                        \/ ~th[p].ran /\ th[p].src # 0 /\ th[p].rv = <<th[p].key, CallOf(th[p].src)>>
    /\ \A x \in Threads :
          (IsBg(x) /\ th[x].pc = "finish" /\ th[x].ran /\ th[x].fnerr) =>
              /\ entries[th[x].e].result = th[x].uv
              /\ entries[th[x].e].lastUpdate = th[x].unow - th[x].ut

\* The background update of a Do failed, and the Do had returned the old
\* value and no error.
C9_Witness ==
    \E p \in Callers :
        /\ DoAtRet(p) /\ th[p].path = "stale" /\ th[p].bg = "fail"
        /\ th[p].v # Nil /\ th[p].rv = th[p].v /\ ~th[p].rerr

\* C10 as claimed: when every call is a Do and no two are on the same key,
\* the process keeps running and every Do that returns has called its own
\* fn, for its own key.
C10_DistinctKeysIndependent ==
    (/\ \A p \in Callers : th[p].kind \in {"none", "do"}
     /\ \A p, q \in Callers : (p # q /\ th[p].kind = "do" /\ th[q].kind = "do")
                                  => th[p].key # th[q].key) =>
        /\ crash = "none"
        /\ \A p \in Callers : th[p].pc # "wait"
        /\ \A p \in Callers : (DoAtRet(p) /\ th[p].rv # Nil) => th[p].rv = FnValue(p)

\* Call q started after call p had returned.
RECURSIVE After(_, _, _)
After(p, q, n) ==
    /\ n > 0 /\ th[q].prev # 0
    /\ \/ th[q].prev = p
       \/ After(p, th[q].prev, n - 1)

Before(p, q) == th[p].key = th[q].key /\ After(p, q, NumCalls)

\* C11 as claimed: a Do that races with a Remove of its key always has a
\* call struct to delegate to, the one that was there or a new one: the
\* lookup of line 40 never finds the key absent and is never disturbed by
\* the delete, and a Do past the lookup works on a call struct of its key.
C11_RaceWithRemoveDelegates ==
    /\ crash # "nilderef"
    /\ crash = "maprace" =>
           ~(/\ th[dmu].kind = "remove"
             /\ \E p \in Callers : th[p].pc = "lookup" /\ th[p].key = th[dmu].key)
    /\ \A p \in Callers :
          (th[p].kind = "do" /\ th[p].pc \notin {"locked", "lookup"}) =>
              /\ th[p].e \in 1..Len(entries)
              /\ entries[th[p].e].key = th[p].key

\* The goroutines between the call of fn and the end of the store, for key k.
ExecutingKey(k) == {x \in Threads : th[x].key = k /\ th[x].pc \in {"fn", "write"}}

\* C12 as claimed: for every key at most one goroutine is executing fn at
\* any time, also when the key was removed and used again while an
\* execution started before the Remove is still running.
C12_Original ==
    \A k \in Keys : Cardinality(ExecutingKey(k)) <= 1

\* C12 as amended: at most one goroutine is executing fn on the call struct
\* registered for a key, and two goroutines executing fn for one key work on
\* different call structs, one of which a returned Remove deleted.
C12_Amended ==
    /\ \A k \in Keys :
          Cardinality({x \in ExecutingKey(k) : th[x].e = calls[k]}) <= 1
    /\ \A x, y \in Threads :
          (x # y /\ th[x].key = th[y].key /\ {x, y} \subseteq ExecutingKey(th[x].key)) =>
              /\ th[x].e # th[y].e
              /\ \E r \in Callers :
                    /\ th[r].kind = "remove" /\ th[r].pc = "ret"
                    /\ th[r].key = th[x].key
                    /\ th[r].e \in {th[x].e, th[y].e}

\* fn is running on a call struct a Remove deleted while the fn of a later
\* Do runs on the call struct registered for the key now.
C12_Witness ==
    \E x, y \in Threads :
        /\ x # y /\ th[x].key = th[y].key
        /\ th[x].pc = "fn" /\ th[y].pc = "fn"
        /\ th[y].e = calls[th[y].key] /\ th[x].e < th[y].e

\* C13: a step in which a Do returns the stored value as a hit or as a stale
\* value (lines 70-73), or in which update takes the still-fresh shortcut
\* (line 81), returns the result the call struct holds, and the clock
\* reading the step decided on is at most expiration after the lastUpdate
\* stored with that result.
C13_ExpirationBoundsServedAge ==
    [][/\ \A p \in Callers :
             (th[p].pc = "read" /\ th'[p].pc = "ret") =>
                 /\ th'[p].rv = entries[th[p].e].result
                 /\ th[p].now - entries[th[p].e].lastUpdate <= expiration
       /\ \A x \in Threads :
             (th[x].pc = "update" /\ th'[x].pc = "finish") =>
                 /\ th'[x].rv = entries[th[x].e].result
                 /\ th'[x].unow - entries[th[x].e].lastUpdate <= expiration]_vars

\* A Do returned a stored value of age exactly expiration as a hit, and
\* another returned one through the shortcut of update.
C13_Witness ==
    \E p, q \in Callers :
        /\ DoAtRet(p) /\ th[p].path = "hit" /\ th[p].rv # Nil
        /\ th[p].t = expiration
        /\ DoAtRet(q) /\ th[q].path = "sync" /\ ~th[q].ran /\ th[q].src = 0
        /\ th[q].rv # Nil

\* The lastUpdate a Do observed in its snapshot (line 64).
Observed(p) == th[p].now - th[p].t

\* A Do that has taken its snapshot.
HasRead(p) == th[p].kind = "do" /\ th[p].pc \notin {"locked", "lookup", "read"}

\* The lastUpdate a returned Do knows of: the one stored with the value its
\* update returned, else the one it observed.
Known(p) ==
    IF th[p].pc = "ret" /\ th[p].path = "sync" /\ ~th[p].rerr
      THEN th[p].unow
      ELSE Observed(p)

\* C14 as claimed: of two Do calls on one key, the second started after the
\* first had returned, the second observes a lastUpdate no smaller than the
\* one the first observed or stored, whatever Do and Remove calls ran in
\* between.
C14_Original ==
    \A p, q \in Callers :
        (HasRead(p) /\ HasRead(q) /\ Before(p, q)) => Observed(q) >= Known(p)

\* C14 as amended: the same for two Do calls that work on the same call
\* struct; and a successful update has stored a lastUpdate no smaller than
\* the one it found.
C14_Amended ==
    /\ \A p, q \in Callers :
          (HasRead(p) /\ HasRead(q) /\ Before(p, q) /\ th[p].e = th[q].e) =>
              Observed(q) >= Known(p)
    /\ \A x \in Threads :
          (th[x].pc = "finish" /\ th[x].ran /\ ~th[x].rerr) =>
              entries[th[x].e].lastUpdate >= th[x].unow - th[x].ut

\* A Do observed the lastUpdate an earlier Do on the call struct stored,
\* larger than the one that Do had observed.
C14_Witness ==
    \E p, q \in Callers :
        /\ HasRead(p) /\ HasRead(q) /\ Before(p, q) /\ th[p].e = th[q].e
        /\ Observed(p) > 0 /\ Observed(q) > Observed(p)

\* C15: in every step the result and the lastUpdate of a call struct change
\* both or neither, and they change only in the step in which a goroutine
\* whose fn succeeded stores fn's value and the clock reading of its
\* update; and the snapshot a Do takes is the result and the lastUpdate the
\* call struct holds in that one step.
C15_ResultAndTimeTogether ==
    [][/\ \A e \in 1..Len(entries) :
             /\ (entries'[e].result # entries[e].result)
                    <=> (entries'[e].lastUpdate # entries[e].lastUpdate)
             /\ entries'[e].result # entries[e].result =>
                    \E x \in Threads :
                        /\ th[x].e = e /\ th[x].pc = "write" /\ th'[x].pc = "finish"
                        /\ th[x].ran /\ ~th[x].fnerr
                        /\ entries'[e].result = FnValue(x)
                        /\ entries'[e].lastUpdate = th[x].unow
       /\ \A p \in Callers :
             (th[p].pc = "read" /\ th'[p].pc # "read") =>
                 /\ th'[p].v = entries[th[p].e].result
                 /\ th[p].now - th'[p].t = entries[th[p].e].lastUpdate]_vars

\* A Do holds the snapshot of a stored pair that an update has since
\* replaced, value and time.
C15_Witness ==
    \E p \in Callers :
        /\ HasRead(p) /\ th[p].v # Nil /\ Observed(p) > 0
        /\ entries[th[p].e].result # th[p].v
        /\ entries[th[p].e].lastUpdate > Observed(p)

\* The Do calls that found a stored value of call struct e stale.
StaleCallers(e) ==
    {p \in Callers : /\ th[p].kind = "do" /\ th[p].e = e
                     /\ th[p].path = "stale" /\ th[p].v # Nil}

\* No goroutine is at work on call struct e.
Quiet(e) == \A x \in Threads : th[x].e = e => th[x].pc \in {"idle", "ret"}

\* The calls whose fn was executed on e, by the caller at or after clock
\* reading s or by its background update, and those whose fn failed.
RanSince(e, s) ==
    {p \in Callers : /\ th[p].kind = "do" /\ th[p].e = e
                     /\ th[p].ran \/ th[p].bg \in {"ok", "fail"}
                     /\ th[p].unow >= s}

FailedSince(e, s) ==
    {p \in RanSince(e, s) : (th[p].ran /\ th[p].rerr) \/ th[p].bg = "fail"}

\* With 0 < updateInterval < expiration, every update started for the Do
\* calls that found e stale is over, less than updateInterval after the
\* first of these calls read the clock.
StaleWindow(e) ==
    /\ 0 < updateInterval /\ updateInterval < expiration
    /\ StaleCallers(e) # {}
    /\ Quiet(e)
    /\ clock - Least({th[p].now : p \in StaleCallers(e)}) < updateInterval

FirstStale(e) == Least({th[p].now : p \in StaleCallers(e)})

\* C16 as claimed: over such a window fn is executed exactly once.
C16_Original ==
    \A e \in 1..Len(entries) :
        StaleWindow(e) => Cardinality(RanSince(e, FirstStale(e))) = 1

\* C16 as amended: over such a window fn is executed at most once more than
\* it failed, hence at most once with success; and a background update
\* that finds the call struct fresh at its re-check is within both
\* thresholds and returns the stored result and no error without fn.
C16_Amended ==
    /\ \A e \in 1..Len(entries) :
          StaleWindow(e) =>
              Cardinality(RanSince(e, FirstStale(e)))
                  <= Cardinality(FailedSince(e, FirstStale(e))) + 1
    /\ \A x \in Threads :
          (IsBg(x) /\ th[x].pc = "finish" /\ ~th[x].ran) =>
              /\ th[x].ut < expiration /\ th[x].ut < updateInterval
              /\ th[x].rv = entries[th[x].e].result /\ ~th[x].rerr

\* Two Do calls found the value stale; the background update of one has
\* stored a new value, and that of the other, started after it, has found
\* the call struct fresh and is returning the stored value without fn.
C16_Witness ==
    \E p, q \in Callers :
        /\ p # q /\ {p, q} \subseteq StaleCallers(th[p].e)
        /\ 0 < updateInterval /\ updateInterval < expiration
        /\ clock - FirstStale(th[p].e) < updateInterval
        /\ th[p].bg = "ok"
        /\ LET x == BgThread(q)
           IN  /\ th[x].pc = "finish" /\ ~th[x].ran /\ th[x].src = 0
               /\ th[x].rv = <<th[p].key, p>> /\ ~th[x].rerr

\* A returned Remove.
RemoveAtRet(r) == th[r].kind = "remove" /\ th[r].pc = "ret"

\* C17: the result a call struct holds was produced by a call that works
\* on that call struct; a Do that started after a Remove of its key had
\* returned works on a call struct allocated after the one the Remove
\* deleted, waits only for a flight on its own call struct, and returns no
\* value produced on another call struct.
C17_OrphanedUpdateStaysOrphaned ==
    /\ \A e \in 1..Len(entries) :
          entries[e].result # Nil => th[entries[e].result[2]].e = e
    /\ \A r, q \in Callers :
          (RemoveAtRet(r) /\ Before(r, q) /\ th[q].kind = "do" /\ th[q].e # 0) =>
              /\ th[q].e > th[r].e
              /\ th[q].src # 0 => th[CallOf(th[q].src)].e = th[q].e
              /\ (th[q].pc = "ret" /\ th[q].rv # Nil) => th[th[q].rv[2]].e = th[q].e

\* An update that was in flight on a call struct when a Remove deleted it
\* has stored its value there, while the call struct registered for the
\* key holds the value of a Do that started after the Remove.
C17_Witness ==
    \E x \in Threads, r, q \in Callers :
        /\ th[x].pc = "finish" /\ th[x].ran /\ ~th[x].rerr
        /\ entries[th[x].e].result = FnValue(x)
        /\ RemoveAtRet(r) /\ th[r].e = th[x].e /\ th[r].overlap
        /\ Before(r, q) /\ DoAtRet(q) /\ th[q].ran /\ ~th[q].rerr
        /\ th[q].e = calls[th[q].key] /\ th[q].e # th[x].e
        /\ entries[th[q].e].result = FnValue(q)

\* C18: a goroutine whose fn succeeded has stored as lastUpdate the clock
\* reading its update took before it called fn, whatever the clock reads
\* when fn returns; and when the next Do on the key, on the same call
\* struct and with no other operation on the key during either, reads the
\* clock more than expiration after that reading, it finds the value
\* expired and calls fn itself.
C18_StoresStartTime ==
    /\ \A x \in Threads :
          (th[x].pc = "finish" /\ th[x].ran /\ ~th[x].rerr) =>
              /\ entries[th[x].e].lastUpdate = th[x].unow
              /\ th[x].unow <= clock
    /\ \A p, q \in Callers :
          (/\ DoAtRet(p) /\ th[p].ran /\ ~th[p].rerr /\ ~th[p].overlap
           /\ HasRead(q) /\ th[q].prev = p /\ ~th[q].overlap
           /\ th[q].e = th[p].e
           /\ th[q].now - th[p].unow > expiration) =>
              /\ Observed(q) = th[p].unow /\ th[q].v = FnValue(p)
              /\ th[q].path = "sync"
              /\ th[q].pc \notin {"update", "wait"} => th[q].ran

\* fn has returned and its value is stored with the clock reading taken
\* before fn was called, which lies more than expiration before the latest
\* reading of the clock.
C18_Witness ==
    \E x \in Threads :
        /\ th[x].pc = "finish" /\ th[x].ran /\ ~th[x].rerr
        /\ entries[th[x].e].result = FnValue(x)
        /\ entries[th[x].e].lastUpdate = th[x].unow
        /\ clock - th[x].unow > expiration

\* C19 as claimed: a Do whose snapshot is of a call struct never stored to
\* (lastUpdate = 0) finds it expired, for every expiration and every clock
\* reading: it takes the synchronous path and does not return the empty
\* result as a hit; and update never takes its shortcut on such a call
\* struct.
C19_FreshEntryExpired ==
    /\ \A p \in Callers :
          (HasRead(p) /\ Observed(p) = 0) =>
              /\ th[p].t > expiration
              /\ th[p].path = "sync"
    /\ \A x \in Threads :
          (th[x].pc = "finish" /\ ~th[x].ran) => th[x].unow - th[x].ut # 0

\* Goroutine x can take its next step.
CanStep(x) ==
    ENABLED (\/ DoCreate(x) \/ DoLookup(x) \/ Read(x) \/ Join(x) \/ Lead(x)
             \/ \E err \in BOOLEAN : FnReturn(x, err)
             \/ Store(x) \/ Finish(x) \/ RemoveDelete(x))

\* C20 as claimed: no call gets stuck: d.mu is held only by a goroutine
\* inside lines 34-38 or 45-47, every goroutine inside Do, Remove or update
\* that is not waiting for a flight can take its next step, and every
\* goroutine waiting for a flight waits for a registered flight of its call
\* struct whose goroutine is executing or finishing it.
C20_NoCallStuck ==
    /\ dmu # 0 => th[dmu].pc \in {"locked", "rmlocked"}
    /\ \A x \in Threads :
          th[x].pc \notin {"idle", "ret", "wait"} => CanStep(x)
    /\ \A x \in Threads :
          th[x].pc = "wait" =>
              LET l == entries[th[x].e].flight
              IN  /\ l # 0 /\ l # x
                  /\ th[l].e = th[x].e
                  /\ th[l].pc \in {"fn", "write", "finish"}

====
